---- MODULE Spec2Model ----
(***************************************************************************)
(* A model of suggest-reviewer (src/index.js): the reviewer ranking        *)
(* engine (CODEOWNERS matching, scoring, latency estimation, confidence)   *)
(* and the run() pipeline that posts the suggestion comment.               *)
(*                                                                         *)
(* Representation.                                                         *)
(*  - A login is a sequence of one-character strings, so that isBotLogin   *)
(*    can lower-case it and search it as the code does.  null, undefined   *)
(*    and "" are all the empty sequence: the code only ever tests them     *)
(*    with !login.                                                         *)
(*  - A file path is a sequence of segments, a segment a pair              *)
(*    <<stem, extension>> ("app.js" is <<"app", "js">>).                   *)
(*  - A CODEOWNERS pattern is [rooted, segs]: rooted says it starts with   *)
(*    "/", segs are its "/"-separated parts.                               *)
(*  - Hours are integers.  A median is kept doubled (in half hours), since *)
(*    median() averages the two middle samples of an even-sized list.      *)
(*  - A JS Map is a sequence of <<key, value>> pairs in insertion order.   *)
(***************************************************************************)
EXTENDS Integers, Sequences, FiniteSets, TLC

VARIABLES
    pc,        \* position of the function call being evaluated
    args,      \* the arguments of that call
    scores,    \* rankCandidates: the scores Map
    reasons,   \* rankCandidates: the reasons Map
    ret,       \* the value the call returned
    inputs,    \* run: the action's inputs (use_codeowners, use_latency)
    runs,      \* run: each workflow run's locals and position
    comments,  \* the pull request's comments, oldest first
    faults     \* the external calls that have failed so far

vars == <<pc, args, scores, reasons, ret, inputs, runs, comments, faults>>

\* -------------------- Strings --------------------

UpperChars == <<"A","B","C","D","E","F","G","H","I","J","K","L","M",
                "N","O","P","Q","R","S","T","U","V","W","X","Y","Z">>
LowerChars == <<"a","b","c","d","e","f","g","h","i","j","k","l","m",
                "n","o","p","q","r","s","t","u","v","w","x","y","z">>

\* the lower-case letter of each upper-case one
LowerOf == [c \in {UpperChars[k] : k \in 1..Len(UpperChars)} |->
               LowerChars[CHOOSE k \in 1..Len(UpperChars) : UpperChars[k] = c]]

toLowerCase(s) ==
    [i \in 1..Len(s) |-> IF s[i] \in DOMAIN LowerOf THEN LowerOf[s[i]] ELSE s[i]]

includes(s, sub) ==
    \E i \in 1..(Len(s) - Len(sub) + 1) : SubSeq(s, i, i + Len(sub) - 1) = sub

endsWith(s, suf) ==
    /\ Len(s) >= Len(suf)
    /\ SubSeq(s, Len(s) - Len(suf) + 1, Len(s)) = suf

NoLogin == << >>
alice == <<"a","l","i","c","e">>
bob == <<"b","o","b">>
carol == <<"c","a","r","o","l">>
dave == <<"d","a","v","e">>
dependabot == <<"d","e","p","e","n","d","a","b","o","t","[","b","o","t","]">>
renovateApp == <<"r","e","n","o","v","a","t","e","[","b","o","t","]">>
AbBott == <<"A","b","B","o","t","t">>
githubActions == <<"g","i","t","h","u","b","-","a","c","t","i","o","n","s">>

BotSuffix == <<"[","b","o","t","]">>
BotWord == <<"b","o","t">>

\* login with l its lower-case form
isBotName(login, l) ==
    \/ endsWith(login, BotSuffix)
    \/ includes(l, BotWord)
    \/ l = githubActions

isBotLogin(login) ==
    IF login = NoLogin THEN TRUE
    ELSE isBotName(login, toLowerCase(login))

\* -------------------- Utilities --------------------

Min(a, b) == IF a <= b THEN a ELSE b
Max(a, b) == IF a >= b THEN a ELSE b

clamp(n, a, b) == Max(a, Min(b, n))

Range(sq) == {sq[i] : i \in 1..Len(sq)}

Take(sq, n) == SubSeq(sq, 1, Min(Len(sq), n))

RECURSIVE SumFn(_, _)
\* the sum of fn over the finite set S
SumFn(fn, S) ==
    IF S = {} THEN 0
    ELSE LET x == CHOOSE y \in S : TRUE
         IN  fn[x] + SumFn(fn, S \ {x})

RECURSIVE Insert(_, _)
\* x placed into the ascending sequence s, after the elements equal to it
Insert(x, s) ==
    IF s = << >> THEN <<x>>
    ELSE IF x < Head(s) THEN <<x>> \o s
    ELSE <<Head(s)>> \o Insert(x, Tail(s))

RECURSIVE SortAscending(_)
SortAscending(arr) ==
    IF arr = << >> THEN << >>
    ELSE Insert(arr[Len(arr)], SortAscending(SubSeq(arr, 1, Len(arr) - 1)))

\* null is the empty tuple, and a number n that may be null is <<n>>
Null == << >>

median_Unsorted(arr) ==
    IF Len(arr) = 0 THEN Null
    ELSE LET mid == Len(arr) \div 2
         IN  IF Len(arr) % 2 = 1 THEN <<2 * arr[mid + 1]>>
             ELSE <<arr[mid] + arr[mid + 1]>>

\* twice the median of arr, or Null for the empty list
median(arr) ==
    IF Len(arr) = 0 THEN Null
    ELSE LET s == SortAscending(arr)
             mid == Len(s) \div 2
         IN  IF Len(s) % 2 = 1 THEN <<2 * s[mid + 1]>>
             ELSE <<s[mid] + s[mid + 1]>>

\* -------------------- CODEOWNERS support --------------------

GLOBSTAR == [k |-> "globstar"]
Star == [k |-> "star"]
StarExt(e) == [k |-> "starext", ext |-> e]
Lit(stem, e) == [k |-> "lit", seg |-> <<stem, e>>]

\* one pattern part against one path segment ({dot: true, nocase: false})
SegMatch(seg, p) ==
    CASE p.k = "lit" -> seg = p.seg
      [] p.k = "star" -> TRUE
      [] p.k = "starext" -> seg[2] = p.ext
      [] OTHER -> FALSE

RECURSIVE matchOne(_, _)
\* minimatch's segment walk: "**" spans any number of segments, and
\* swallows the rest of a non-empty path when it ends the pattern
matchOne(file, pat) ==
    IF pat = << >> THEN file = << >>
    ELSE IF file = << >> THEN FALSE
    ELSE IF Head(pat).k = "globstar"
         THEN IF Len(pat) = 1 THEN TRUE
              ELSE \E n \in 0..(Len(file) - 1) :
                      matchOne(SubSeq(file, n + 1, Len(file)), Tail(pat))
    ELSE SegMatch(Head(file), Head(pat)) /\ matchOne(Tail(file), Tail(pat))

\* minimatch(filePath, pat, {dot: true, nocase: false, matchBase: true}):
\* a pattern without "/" is matched against the path's basename
minimatch(filePath, pat) ==
    IF Len(pat) = 1 /\ Len(filePath) >= 1
    THEN matchOne(<<filePath[Len(filePath)]>>, pat)
    ELSE matchOne(filePath, pat)

normalizeCodeownersPattern(pattern) ==
    IF pattern.rooted THEN pattern.segs ELSE <<GLOBSTAR>> \o pattern.segs

RECURSIVE ownersFold(_, _, _)
ownersFold(rules, filePath, matchedOwners) ==
    IF rules = << >> THEN matchedOwners
    ELSE LET r == Head(rules)
             pat == normalizeCodeownersPattern(r.pattern)
         IN  ownersFold(Tail(rules), filePath,
                        IF minimatch(filePath, pat) THEN r.owners ELSE matchedOwners)

RECURSIVE ownersForFile_FirstMatch(_, _)
ownersForFile_FirstMatch(codeownersRules, filePath) ==
    IF codeownersRules = << >> THEN << >>
    ELSE IF minimatch(filePath, normalizeCodeownersPattern(Head(codeownersRules).pattern))
         THEN Head(codeownersRules).owners
         ELSE ownersForFile_FirstMatch(Tail(codeownersRules), filePath)

ownersForFile(codeownersRules, filePath) ==
    IF Len(codeownersRules) = 0 THEN << >>
    ELSE ownersFold(codeownersRules, filePath, << >>)

\* -------------------- Review latency scoring --------------------

\* the tiers with their upper ends left out (< for <=)
latencyBonusHours_OpenTiers(medianHours) ==
    IF medianHours = Null THEN 0
    ELSE IF medianHours[1] < 2 * 4 THEN 6
    ELSE IF medianHours[1] < 2 * 12 THEN 4
    ELSE IF medianHours[1] < 2 * 24 THEN 2
    ELSE IF medianHours[1] < 2 * 48 THEN 1
    ELSE 0

\* medianHours is Null or <<twice the median>>, so each threshold is doubled
latencyBonusHours(medianHours) ==
    IF medianHours = Null THEN 0
    ELSE IF medianHours[1] <= 2 * 4 THEN 6
    ELSE IF medianHours[1] <= 2 * 12 THEN 4
    ELSE IF medianHours[1] <= 2 * 24 THEN 2
    ELSE IF medianHours[1] <= 2 * 48 THEN 1
    ELSE 0

\* Math.round of a median kept doubled (halves round up)
roundHours(medianHours2) == (medianHours2 + 1) \div 2

\* -------------------- Maps --------------------

\* TRUE of every value.  A loop asks it of its accumulator at the head of each
\* turn, so that TLC computes the accumulator turn by turn, as the code does,
\* instead of postponing the whole chain of updates to the end of the loop.
Evaluated(v) == v = v

MapHas(m, key) == \E i \in 1..Len(m) : m[i][1] = key

MapGet(m, key) == m[CHOOSE i \in 1..Len(m) : m[i][1] = key][2]

\* Map.set: a new key goes last, a known key keeps its place
MapSet(m, key, value) ==
    IF MapHas(m, key)
    THEN [i \in 1..Len(m) |-> IF m[i][1] = key THEN <<key, value>> ELSE m[i]]
    ELSE Append(m, <<key, value>>)

\* Set.add on an insertion-ordered set
SetAdd(s, x) == IF \E i \in 1..Len(s) : s[i] = x THEN s ELSE Append(s, x)

\* -------------------- Review latency estimation --------------------

\* Times are whole hours.  A review is [login, submitted_at], submitted_at
\* Null or <<t>>; a closed pull request is [created_at, closed, reviews],
\* closed saying that merged_at or closed_at is set, and reviews what
\* pulls.listReviews answers for it: [ok, data], ok FALSE when it throws.

RECURSIVE firstByUser_LastWins(_, _)
firstByUser_LastWins(first, reviews) ==
    IF reviews = << >> THEN first
    ELSE LET r == Head(reviews)
         IN  IF isBotLogin(r.login) \/ r.submitted_at = Null
             THEN firstByUser_LastWins(first, Tail(reviews))
             ELSE firstByUser_LastWins(MapSet(first, r.login, r.submitted_at[1]), Tail(reviews))

RECURSIVE firstByUser(_, _)
\* first review per reviewer on one pull request
firstByUser(first, reviews) ==
    IF reviews = << >> THEN first
    ELSE LET r == Head(reviews)
         IN  IF isBotLogin(r.login) \/ r.submitted_at = Null
             THEN firstByUser(first, Tail(reviews))
             ELSE IF ~MapHas(first, r.login) \/ r.submitted_at[1] < MapGet(first, r.login)
             THEN firstByUser(MapSet(first, r.login, r.submitted_at[1]), Tail(reviews))
             ELSE firstByUser(first, Tail(reviews))

RECURSIVE pushLatencies(_, _, _)
\* the loop over firstByUser.entries() of a pull request created at createdAt
pushLatencies(perReviewer, first, createdAt) ==
    IF first = << >> THEN perReviewer
    ELSE LET login == Head(first)[1]
             hours == Head(first)[2] - createdAt
         IN  IF hours < 0 THEN pushLatencies(perReviewer, Tail(first), createdAt)
             ELSE pushLatencies(
                      MapSet(perReviewer, login,
                             Append(IF MapHas(perReviewer, login)
                                    THEN MapGet(perReviewer, login) ELSE << >>, hours)),
                      Tail(first), createdAt)

RECURSIVE latencySamples(_, _, _)
\* the loop over pulls.data
latencySamples(perReviewer, pulls, since) ==
    IF pulls = << >> THEN perReviewer
    ELSE LET pr == Head(pulls)
         IN  IF ~pr.closed \/ pr.created_at < since \/ ~pr.reviews.ok
             THEN latencySamples(perReviewer, Tail(pulls), since)
             ELSE latencySamples(
                      pushLatencies(perReviewer, firstByUser(<< >>, pr.reviews.data), pr.created_at),
                      Tail(pulls), since)

RECURSIVE latencyMedians(_, _)
latencyMedians(out, perReviewer) ==
    IF perReviewer = << >> THEN out
    ELSE LET m == median(Head(perReviewer)[2])
         IN  latencyMedians(IF m # Null THEN MapSet(out, Head(perReviewer)[1], m[1]) ELSE out,
                            Tail(perReviewer))

\* Map(login -> twice the median latency hours), given what pulls.list answered
computeReviewerLatencyHours(pulls, since) ==
    latencyMedians(<< >>, latencySamples(<< >>, pulls, since))

\* -------------------- Ranking --------------------

HISTORY_CAP == 10

\* st is [scores, reasons], the two Maps of rankCandidates
add_KeepAuthor(st, login, pts, reason, prAuthor) ==
    IF isBotLogin(login) THEN st
    ELSE [scores |-> MapSet(st.scores, login,
                        (IF MapHas(st.scores, login) THEN MapGet(st.scores, login) ELSE 0) + pts),
          reasons |-> MapSet(st.reasons, login,
                        SetAdd(IF MapHas(st.reasons, login) THEN MapGet(st.reasons, login) ELSE << >>,
                               reason))]

add(st, login, pts, reason, prAuthor) ==
    IF isBotLogin(login) THEN st
    ELSE IF login = prAuthor THEN st
    ELSE [scores |-> MapSet(st.scores, login,
                        (IF MapHas(st.scores, login) THEN MapGet(st.scores, login) ELSE 0) + pts),
          reasons |-> MapSet(st.reasons, login,
                        SetAdd(IF MapHas(st.reasons, login) THEN MapGet(st.reasons, login) ELSE << >>,
                               reason))]

RECURSIVE historyAuthors(_, _, _, _, _, _)
\* the inner loop over one file's authors, i counted from 0
historyAuthors(st, authors, i, max, w, prAuthor) ==
    IF ~Evaluated(st) \/ i >= max THEN st
    ELSE historyAuthors(add(st, authors[i + 1], Max(1, 3 - i) * w, <<"recent commits">>, prAuthor),
                        authors, i + 1, max, w, prAuthor)

historyFile_NoCap(st, authors, w, prAuthor) ==
    historyAuthors(st, authors, 0, Len(authors), w, prAuthor)

historyFile(st, authors, w, prAuthor) ==
    historyAuthors(st, authors, 0, Min(Len(authors), HISTORY_CAP), w, prAuthor)

RECURSIVE HistoryPass(_, _, _, _)
\* 1) Commit history signal
HistoryPass(st, fileAuthors, w, prAuthor) ==
    IF ~Evaluated(st) \/ fileAuthors = << >> THEN st
    ELSE HistoryPass(historyFile(st, Head(fileAuthors).authors, w, prAuthor),
                     Tail(fileAuthors), w, prAuthor)

RECURSIVE ownersLoop(_, _, _, _, _)
\* the inner loop over one file's owners; the result carries the seen set
ownersLoop(acc, owners, f, w, prAuthor) ==
    IF ~Evaluated(acc) \/ owners = << >> THEN acc
    ELSE LET o == Head(owners)
             key == <<o, f>>
         IN  IF o = NoLogin \/ key \in acc.seen
             THEN ownersLoop(acc, Tail(owners), f, w, prAuthor)
             ELSE ownersLoop([st |-> add(acc.st, o, w, <<"CODEOWNERS">>, prAuthor),
                              seen |-> acc.seen \cup {key}],
                             Tail(owners), f, w, prAuthor)

RECURSIVE ownersFiles(_, _, _, _, _)
ownersFiles(acc, changedFiles, codeownersRules, w, prAuthor) ==
    IF ~Evaluated(acc) \/ changedFiles = << >> THEN acc
    ELSE ownersFiles(ownersLoop(acc, ownersForFile(codeownersRules, Head(changedFiles)),
                                Head(changedFiles), w, prAuthor),
                     Tail(changedFiles), codeownersRules, w, prAuthor)

\* 2) CODEOWNERS signal
OwnersPass(st, codeownersRules, changedFiles, w, prAuthor) ==
    IF w > 0 /\ Len(codeownersRules) > 0
    THEN ownersFiles([st |-> st, seen |-> {}], changedFiles, codeownersRules, w, prAuthor).st
    ELSE st

RECURSIVE latencyLoop_WeightOnHours(_, _, _, _)
latencyLoop_WeightOnHours(st, entries, w, prAuthor) ==
    IF ~Evaluated(st) \/ entries = << >> THEN st
    ELSE LET login == Head(entries)[1]
             medHrs == Head(entries)[2]
             bonus == latencyBonusHours(<<medHrs * w>>)
         IN  latencyLoop_WeightOnHours(
                 IF bonus > 0
                 THEN add(st, login, bonus, <<"fast reviewer", roundHours(medHrs)>>, prAuthor)
                 ELSE st,
                 Tail(entries), w, prAuthor)

RECURSIVE latencyLoop(_, _, _, _)
latencyLoop(st, entries, w, prAuthor) ==
    IF ~Evaluated(st) \/ entries = << >> THEN st
    ELSE LET login == Head(entries)[1]
             medHrs == Head(entries)[2]
             bonus == latencyBonusHours(<<medHrs>>) * w
         IN  latencyLoop(IF bonus > 0
                         THEN add(st, login, bonus, <<"fast reviewer", roundHours(medHrs)>>, prAuthor)
                         ELSE st,
                         Tail(entries), w, prAuthor)

\* 3) Review latency signal
LatencyPass(st, latencyMap, w, prAuthor) ==
    IF w > 0 /\ Len(latencyMap) > 0
    THEN latencyLoop(st, latencyMap, w, prAuthor)
    ELSE st

RECURSIVE InsertByScore_TiesFirst(_, _)
InsertByScore_TiesFirst(e, s) ==
    IF s = << >> THEN <<e>>
    ELSE IF e[2] >= Head(s)[2] THEN <<e>> \o s
    ELSE <<Head(s)>> \o InsertByScore_TiesFirst(e, Tail(s))

RECURSIVE InsertByScore(_, _)
\* e placed into the score-descending sequence s, after the entries that
\* score as much: Array.prototype.sort is stable
InsertByScore(e, s) ==
    IF s = << >> THEN <<e>>
    ELSE IF e[2] > Head(s)[2] THEN <<e>> \o s
    ELSE <<Head(s)>> \o InsertByScore(e, Tail(s))

RECURSIVE sortByScore(_)
\* [...scores.entries()].sort((a, b) => b[1] - a[1])
sortByScore(entries) ==
    IF entries = << >> THEN << >>
    ELSE InsertByScore(entries[Len(entries)], sortByScore(SubSeq(entries, 1, Len(entries) - 1)))

SortRanked(st) ==
    LET sorted == sortByScore(st.scores)
    IN  [i \in 1..Len(sorted) |->
            [login |-> sorted[i][1],
             score |-> sorted[i][2],
             reasons |-> IF MapHas(st.reasons, sorted[i][1])
                         THEN MapGet(st.reasons, sorted[i][1]) ELSE << >>]]

EmptyMaps == [scores |-> << >>, reasons |-> << >>]

rankCandidates(a) ==
    SortRanked(
        LatencyPass(
            OwnersPass(
                HistoryPass(EmptyMaps, a.fileAuthors, a.weights.commitHistory, a.prAuthor),
                a.codeownersRules, a.changedFiles, a.weights.codeowners, a.prAuthor),
            a.latencyMap, a.weights.latency, a.prAuthor))

\* -------------------- Confidence --------------------

\* a ratio is [num, den] with den > 0; 0.5 is Half and 0.25 is Quarter
Ratio(n, d) == [num |-> n, den |-> d]
Half == Ratio(1, 2)
Quarter == Ratio(1, 4)
RatioGE(a, b) == a.num * b.den >= b.num * a.den

\* ranked[i]?.score || 0, i counted from 0
scoreAt(ranked, i) == IF Len(ranked) > i THEN ranked[i + 1].score ELSE 0

\* covered / changedFiles.length, or 0 for no changed files
coverageRatio(changedFiles, codeownersRules, fileAuthors) ==
    LET approx == IF Len(fileAuthors) > 0
                  THEN Min(Len(changedFiles), Max(1, Len(fileAuthors)))
                  ELSE 0
        byFileHasSignal ==
            [f \in {changedFiles[i] : i \in 1..Len(changedFiles)} |->
                Len(codeownersRules) > 0 /\ Len(ownersForFile(codeownersRules, f)) > 0]
        codeownersCovered == Cardinality({f \in DOMAIN byFileHasSignal : byFileHasSignal[f]})
        covered == Max(Max(0, approx), codeownersCovered)
    IN  IF Len(changedFiles) > 0 THEN Ratio(covered, Len(changedFiles)) ELSE Ratio(0, 1)

computeConfidence_StrictTop(a) ==
    LET top == scoreAt(a.ranked, 0)
        second == scoreAt(a.ranked, 1)
        cov == coverageRatio(a.changedFiles, a.codeownersRules, a.fileAuthors)
        separation == IF top > 0 THEN Ratio(top - second, top) ELSE Ratio(0, 1)
    IN  IF top > 12 /\ RatioGE(cov, Half) /\ RatioGE(separation, Quarter) THEN "High"
        ELSE IF top > 6 /\ RatioGE(cov, Quarter) THEN "Medium"
        ELSE "Low"

computeConfidence(a) ==
    LET top == scoreAt(a.ranked, 0)
        second == scoreAt(a.ranked, 1)
        cov == coverageRatio(a.changedFiles, a.codeownersRules, a.fileAuthors)
        separation == IF top > 0 THEN Ratio(top - second, top) ELSE Ratio(0, 1)
    IN  IF top >= 12 /\ RatioGE(cov, Half) /\ RatioGE(separation, Quarter) THEN "High"
        ELSE IF top >= 6 /\ RatioGE(cov, Quarter) THEN "Medium"
        ELSE "Low"

\* -------------------- Paths, patterns and rules of the checks --------------------

srcAppJs == << <<"src", "">>, <<"app", "js">> >>
readmeMd == << <<"README", "md">> >>
docsReadmeMd == << <<"docs", "">>, <<"README", "md">> >>
srcLibUtilJs == << <<"src", "">>, <<"lib", "">>, <<"util", "js">> >>
dotGithubCi == << <<"", "github">>, <<"ci", "yml">> >>

Paths == {srcAppJs, readmeMd, docsReadmeMd, srcLibUtilJs, dotGithubCi}

patSrcAll == [rooted |-> TRUE, segs |-> <<Lit("src", ""), GLOBSTAR>>]      \* /src/**
patMd == [rooted |-> FALSE, segs |-> <<StarExt("md")>>]                    \* *.md
patRootReadme == [rooted |-> TRUE, segs |-> <<Lit("README", "md")>>]       \* /README.md
patAny == [rooted |-> FALSE, segs |-> <<Star>>]                            \* *
patDocs == [rooted |-> FALSE, segs |-> <<Lit("docs", ""), Star>>]          \* docs/*
patLibJs == [rooted |-> TRUE, segs |-> <<Lit("src", ""), Lit("lib", ""), StarExt("js")>>] \* /src/lib/*.js

Patterns == {patSrcAll, patMd, patRootReadme, patAny, patDocs, patLibJs}

OwnerLists == {<<alice>>, <<carol, bob>>}

Rules == [pattern : Patterns, owners : OwnerLists]

MaxRules == 3

RECURSIVE SeqsUpTo(_, _)
\* the sequences over S of length at most n
SeqsUpTo(S, n) ==
    IF n = 0 THEN {<< >>}
    ELSE LET shorter == SeqsUpTo(S, n - 1)
         IN  shorter \cup {Append(s, x) : s \in {t \in shorter : Len(t) = n - 1}, x \in S}

\* -------------------- ownersForFile as a call --------------------

InitOwners ==
    /\ pc = "ownersForFile"
    /\ args \in [codeownersRules : SeqsUpTo(Rules, MaxRules), filePath : Paths]
    /\ scores = << >>
    /\ reasons = << >>
    /\ ret = << >>
    /\ inputs = << >>
    /\ runs = << >>
    /\ comments = << >>
    /\ faults = 0

CallOwnersForFile ==
    /\ pc = "ownersForFile"
    /\ ret' = ownersForFile(args.codeownersRules, args.filePath)
    /\ pc' = "ownersForFile:return"
    /\ UNCHANGED <<args, scores, reasons, inputs, runs, comments, faults>>

NextOwners == CallOwnersForFile

SpecOwners == InitOwners /\ [][NextOwners]_vars

\* -------------------- rankCandidates as a call --------------------

erin == <<"e","r","i","n">>

MaxFiles == 2
MaxAuthors == 12

AuthorCycle == <<alice, bob, carol, dave>>

\* a long commit-author list: past the cap come alice again and erin,
\* who is nowhere before it
LongAuthors ==
    [i \in 1..MaxAuthors |->
        IF i <= HISTORY_CAP THEN AuthorCycle[((i - 1) % 4) + 1]
        ELSE IF i % 2 = 1 THEN alice ELSE erin]

AuthorLists == {<<carol, bob, dependabot, dave, AbBott>>, <<bob, alice, bob>>, LongAuthors}

FilePathAt == <<srcAppJs, readmeMd, srcLibUtilJs, docsReadmeMd, dotGithubCi>>

FileAuthorsOf(lists) == [i \in 1..Len(lists) |-> [path |-> FilePathAt[i], authors |-> lists[i]]]

ExampleRules == <<[pattern |-> patSrcAll, owners |-> <<alice>>],
                  [pattern |-> patMd, owners |-> <<bob>>]>>

\* (codeownersRules, changedFiles) pairs
Ownerships ==
    { <<ExampleRules, <<srcAppJs, readmeMd>> >>,
      << << >>, <<srcAppJs>> >>,
      << <<[pattern |-> patAny, owners |-> <<carol, alice>>],
           [pattern |-> patSrcAll, owners |-> <<dependabot, bob>>]>>,
         <<readmeMd, srcAppJs, srcLibUtilJs>> >>,
      << <<[pattern |-> patAny, owners |-> <<bob, alice, bob>>]>>,
         <<srcAppJs, docsReadmeMd>> >> }

\* login -> twice the median hours
LatencyMaps ==
    { << >>,
      << <<bob, 2 * 2>>, <<alice, 2 * 30>> >>,
      << <<dependabot, 2>>, <<carol, 21>>, <<dave, 2 * 100>>, <<erin, 2 * 8>> >> }

WeightSets == [commitHistory : {0, 1, 2}, codeowners : {0, 4}, latency : {0, 1}]

PrAuthors == {carol, alice, NoLogin}

RankArgs ==
    { [fileAuthors |-> FileAuthorsOf(ls), prAuthor |-> pa, codeownersRules |-> o[1],
       changedFiles |-> o[2], latencyMap |-> lm, weights |-> w] :
        ls \in SeqsUpTo(AuthorLists, MaxFiles), pa \in PrAuthors, o \in Ownerships,
        lm \in LatencyMaps, w \in WeightSets }

InitRank ==
    /\ pc = "rank:history"
    /\ args \in RankArgs
    /\ scores = << >>
    /\ reasons = << >>
    /\ ret = << >>
    /\ inputs = << >>
    /\ runs = << >>
    /\ comments = << >>
    /\ faults = 0

RankHistory ==
    /\ pc = "rank:history"
    /\ LET st == HistoryPass([scores |-> scores, reasons |-> reasons], args.fileAuthors,
                            args.weights.commitHistory, args.prAuthor)
       IN  scores' = st.scores /\ reasons' = st.reasons
    /\ pc' = "rank:codeowners"
    /\ UNCHANGED <<args, ret, inputs, runs, comments, faults>>

RankCodeowners ==
    /\ pc = "rank:codeowners"
    /\ LET st == OwnersPass([scores |-> scores, reasons |-> reasons], args.codeownersRules,
                           args.changedFiles, args.weights.codeowners, args.prAuthor)
       IN  scores' = st.scores /\ reasons' = st.reasons
    /\ pc' = "rank:latency"
    /\ UNCHANGED <<args, ret, inputs, runs, comments, faults>>

RankLatency ==
    /\ pc = "rank:latency"
    /\ LET st == LatencyPass([scores |-> scores, reasons |-> reasons], args.latencyMap,
                            args.weights.latency, args.prAuthor)
       IN  scores' = st.scores /\ reasons' = st.reasons
    /\ pc' = "rank:sort"
    /\ UNCHANGED <<args, ret, inputs, runs, comments, faults>>

RankSort ==
    /\ pc = "rank:sort"
    /\ ret' = SortRanked([scores |-> scores, reasons |-> reasons])
    /\ pc' = "rank:return"
    /\ UNCHANGED <<args, scores, reasons, inputs, runs, comments, faults>>

NextRank == RankHistory \/ RankCodeowners \/ RankLatency \/ RankSort

SpecRank == InitRank /\ [][NextRank]_vars

\* -------------------- computeReviewerLatencyHours as a call --------------------

MaxRequests == 3

Review(l, t) == [login |-> l, submitted_at |-> t]

ReviewLists ==
    { <<Review(alice, <<130>>), Review(alice, <<104>>)>>,
      <<Review(bob, <<112>>), Review(alice, <<110>>), Review(bob, Null)>>,
      <<Review(alice, <<102>>), Review(dependabot, <<101>>), Review(bob, <<90>>), Review(NoLogin, <<103>>)>>,
      <<Review(alice, <<120>>), Review(bob, <<148>>), Review(alice, <<101>>), Review(bob, <<124>>)>> }

ClosedRequests ==
    {[created_at |-> 100, closed |-> TRUE, reviews |-> [ok |-> TRUE, data |-> d]] : d \in ReviewLists}
    \cup {[created_at |-> 10, closed |-> TRUE,
           reviews |-> [ok |-> TRUE, data |-> <<Review(carol, <<11>>)>>]],
          [created_at |-> 100, closed |-> FALSE,
           reviews |-> [ok |-> TRUE, data |-> <<Review(carol, <<101>>)>>]],
          [created_at |-> 100, closed |-> TRUE, reviews |-> [ok |-> FALSE, data |-> << >>]],
          [created_at |-> 96, closed |-> TRUE,
           reviews |-> [ok |-> TRUE, data |-> <<Review(alice, <<146>>), Review(bob, <<97>>)>>]]}

InitLatency ==
    /\ pc = "latency"
    /\ args \in [pulls : SeqsUpTo(ClosedRequests, MaxRequests), since : {50}]
    /\ scores = << >>
    /\ reasons = << >>
    /\ ret = << >>
    /\ inputs = << >>
    /\ runs = << >>
    /\ comments = << >>
    /\ faults = 0

CallComputeLatency ==
    /\ pc = "latency"
    /\ ret' = computeReviewerLatencyHours(args.pulls, args.since)
    /\ pc' = "latency:return"
    /\ UNCHANGED <<args, scores, reasons, inputs, runs, comments, faults>>

NextLatency == CallComputeLatency

SpecLatency == InitLatency /\ [][NextLatency]_vars

\* -------------------- computeConfidence as a call --------------------

MaxChanged == 10

\* src/<n>.js
FileNo(n) == << <<"src", "">>, <<ToString(n), "js">> >>

RuleFor(n, owner) ==
    [pattern |-> [rooted |-> TRUE, segs |-> <<Lit("src", ""), Lit(ToString(n), "js")>>],
     owners |-> <<owner>>]

ConfidenceRules ==
    { << >>,
      <<RuleFor(1, alice), RuleFor(2, bob), RuleFor(4, bob)>>,
      <<[pattern |-> [rooted |-> FALSE, segs |-> <<StarExt("js")>>], owners |-> <<carol>>]>> }

ScoreLists ==
    { << >>, <<0>>, <<3>>, <<5, 5>>, <<6>>, <<7, 6>>, <<11, 2>>, <<12>>, <<12, 9>>,
      <<12, 10>>, <<14, 9>>, <<16, 12>>, <<16, 13>>, <<20, 5, 5>> }

RankedOf(scs) ==
    [i \in 1..Len(scs) |->
        [login |-> <<alice, bob, carol>>[i], score |-> scs[i], reasons |-> << >>]]

ConfidenceArgs ==
    { [ranked |-> RankedOf(scs),
       changedFiles |-> [i \in 1..n |-> FileNo(i)],
       codeownersRules |-> rules,
       fileAuthors |-> [i \in 1..k |-> [path |-> FileNo(i), authors |-> <<alice>>]]] :
        scs \in ScoreLists, n \in 0..MaxChanged, k \in {0, 1, 3, MaxChanged + 1},
        rules \in ConfidenceRules }

InitConfidence ==
    /\ pc = "confidence"
    /\ args \in ConfidenceArgs
    /\ scores = << >>
    /\ reasons = << >>
    /\ ret = << >>
    /\ inputs = << >>
    /\ runs = << >>
    /\ comments = << >>
    /\ faults = 0

CallComputeConfidence ==
    /\ pc = "confidence"
    /\ ret' = computeConfidence(args)
    /\ pc' = "confidence:return"
    /\ UNCHANGED <<args, scores, reasons, inputs, runs, comments, faults>>

NextConfidence == CallComputeConfidence

SpecConfidence == InitConfidence /\ [][NextConfidence]_vars

\* -------------------- latencyBonusHours as a call --------------------

MaxMedianHours == 50

\* what median() can hand over: null, or a median up to MaxMedianHours, in
\* half hours
MedianArgs == {Null} \cup {<<h>> : h \in 0..(2 * MaxMedianHours)}

\* two reviewers' medians, their bonuses computed one after the other
InitBonus ==
    /\ pc = "latencyBonus"
    /\ args \in MedianArgs \X MedianArgs
    /\ scores = << >>
    /\ reasons = << >>
    /\ ret = << >>
    /\ inputs = << >>
    /\ runs = << >>
    /\ comments = << >>
    /\ faults = 0

CallLatencyBonus ==
    /\ pc = "latencyBonus"
    /\ ret' = Append(ret, latencyBonusHours(args[Len(ret) + 1]))
    /\ pc' = IF Len(ret) + 1 = Len(args) THEN "latencyBonus:return" ELSE "latencyBonus"
    /\ UNCHANGED <<args, scores, reasons, inputs, runs, comments, faults>>

NextBonus == CallLatencyBonus

SpecBonus == InitBonus /\ [][NextBonus]_vars

\* -------------------- The pull request and its repository --------------------

MARKER == "<!-- reviewer-suggester:v0 -->"

PER_PAGE == 100

CODEOWNERS_CANDIDATE_PATHS == <<".github/CODEOWNERS", "CODEOWNERS", "docs/CODEOWNERS">>

\* @login as CODEOWNERS writes it
At(login) == <<"@">> \o login

\* The CODEOWNERS file, one record a line: a rule line holds its pattern and
\* the whitespace-separated tokens after it.
CodeownersText ==
    << [kind |-> "comment", pattern |-> patAny, rest |-> << >>],
       [kind |-> "rule", pattern |-> patSrcAll, rest |-> <<At(alice), At(dependabot)>>],
       [kind |-> "blank", pattern |-> patAny, rest |-> << >>],
       [kind |-> "rule", pattern |-> patMd, rest |-> <<At(bob), <<"#">>, <<"d","o","c","s">> >>],
       [kind |-> "rule", pattern |-> patDocs, rest |-> << >>],
       [kind |-> "rule", pattern |-> patLibJs, rest |-> <<At(renovateApp)>>] >>

RepoFileText(path) == IF path = "CODEOWNERS" THEN CodeownersText ELSE Null

PullRequest == [author |-> carol, files |-> <<srcAppJs, readmeMd>>]

\* the author logins of the commits repos.listCommits answers for a path
CommitsOf(path) ==
    IF path = srcAppJs THEN <<bob, dependabot, NoLogin, alice, bob>>
    ELSE IF path = readmeMd THEN <<carol, alice>>
    ELSE << >>

ClosedPulls ==
    << [created_at |-> 100, closed |-> TRUE,
        reviews |-> [ok |-> TRUE, data |-> <<Review(bob, <<112>>), Review(alice, <<110>>)>>]],
       [created_at |-> 96, closed |-> TRUE,
        reviews |-> [ok |-> TRUE, data |-> <<Review(alice, <<146>>), Review(bob, <<97>>)>>]] >>

\* the action's inputs left at their defaults
Defaults == [max_reviewers |-> 3, lookback_days |-> 90, max_files |-> 50, latency_prs |-> 20]

NowHour == Defaults.lookback_days * 24 + 50

\* -------------------- GitHub fetch helpers --------------------

\* pages of 100 until maxFiles names are held or a page is empty
listAllPRFiles(prFiles, maxFiles) == Take(prFiles, maxFiles)

topCommitAuthorsForPath(commits) ==
    SelectSeq(commits, LAMBDA login : login # NoLogin /\ ~isBotLogin(login))

RECURSIVE tryCandidatePaths(_, _)
\* the loop over CODEOWNERS_CANDIDATE_PATHS; a fetch that throws gives null
tryCandidatePaths(paths, unavailable) ==
    IF paths = << >> THEN Null
    ELSE LET text == IF Head(paths) \in unavailable THEN Null ELSE RepoFileText(Head(paths))
         IN  IF text # Null THEN text ELSE tryCandidatePaths(Tail(paths), unavailable)

\* the tokens before the first one that starts an inline comment
RECURSIVE beforeComment(_)
beforeComment(tokens) ==
    IF tokens = << >> \/ Head(Head(tokens)) = "#" THEN << >>
    ELSE <<Head(tokens)>> \o beforeComment(Tail(tokens))

stripAt(o) == IF o # << >> /\ Head(o) = "@" THEN Tail(o) ELSE o

RECURSIVE parseCodeowners(_)
parseCodeowners(text) ==
    IF text = << >> THEN << >>
    ELSE LET line == Head(text)
             tokens == beforeComment(line.rest)
             owners == SelectSeq([i \in 1..Len(tokens) |-> stripAt(tokens[i])],
                                 LAMBDA o : o # << >> /\ ~isBotLogin(o))
         IN  IF line.kind # "rule" \/ Len(tokens) < 1 \/ Len(owners) = 0
             THEN parseCodeowners(Tail(text))
             ELSE <<[pattern |-> line.pattern, owners |-> owners]>> \o parseCodeowners(Tail(text))

\* -------------------- PR comment upsert --------------------

HumanBody == [marker |-> "", suggestions |-> << >>, confidence |-> "", fileCount |-> 0]

formatComment(suggestions, maxFiles, fileCount, confidence) ==
    [marker |-> MARKER, suggestions |-> suggestions, confidence |-> confidence,
     fileCount |-> Min(fileCount, maxFiles)]

\* issues.listComments({per_page: 100}): the first page
listComments(all) == Take(all, PER_PAGE)

\* comments.data.find(c => c.body.includes(MARKER)): Null or <<id>>
findMarker(page) ==
    LET hits == {i \in 1..Len(page) : page[i].body.marker = MARKER}
    IN  IF hits = {} THEN Null ELSE <<page[CHOOSE i \in hits : \A j \in hits : i <= j].id>>

updateComment(all, id, body) ==
    [i \in 1..Len(all) |-> IF all[i].id = id THEN [all[i] EXCEPT !.body = body] ELSE all[i]]

createComment(all, body) == Append(all, [id |-> Len(all) + 1, body |-> body])

\* -------------------- Main --------------------

NumRuns == 2
MaxFailures == 2

Runs == 1..NumRuns

NewRun ==
    [pc |-> "start", files |-> << >>, codeownersRules |-> << >>, fileAuthors |-> << >>,
     i |-> 1, warnings |-> << >>, latencyMap |-> << >>, ranked |-> << >>,
     confidence |-> "", body |-> HumanBody, existing |-> Null, error |-> ""]

weightsOf(in) ==
    [commitHistory |-> 1,
     codeowners |-> IF in.use_codeowners THEN 4 ELSE 0,
     latency |-> IF in.use_latency THEN 1 ELSE 0]

\* an external call may still fail
MayFail == faults < MaxFailures

\* run() returns: its locals are gone
returned(run) == [NewRun EXCEPT !.pc = "done"]

\* catch (err) { core.setFailed(err.message) }
setFailed(run, message) == [returned(run) EXCEPT !.error = message]

InitRun ==
    /\ pc = "run"
    /\ args = << >>
    /\ scores = << >>
    /\ reasons = << >>
    /\ ret = << >>
    /\ inputs \in [use_codeowners : BOOLEAN, use_latency : BOOLEAN]
    /\ runs = [r \in Runs |-> NewRun]
    /\ \E older \in {0, PER_PAGE} :
          comments = [k \in 1..older |-> [id |-> k, body |-> HumanBody]]
    /\ faults = 0

\* run() up to its first await: inputs read, the event checked
Start(r) ==
    /\ runs[r].pc = "start"
    /\ \E eventName \in {"pull_request", "push"} :
          runs' = [runs EXCEPT ![r].pc =
                      IF eventName # "pull_request" THEN "done" ELSE "listFiles"]
    /\ UNCHANGED <<pc, args, scores, reasons, ret, inputs, comments, faults>>

ListFiles(r) ==
    /\ runs[r].pc = "listFiles"
    /\ \/ /\ runs' = [runs EXCEPT ![r].files = listAllPRFiles(PullRequest.files, Defaults.max_files),
                                  ![r].pc = "codeowners"]
          /\ UNCHANGED faults
       \/ /\ MayFail
          /\ runs' = [runs EXCEPT ![r] = setFailed(@, "pulls.listFiles")]
          /\ faults' = faults + 1
    /\ UNCHANGED <<pc, args, scores, reasons, ret, inputs, comments>>

FetchCodeowners(r) ==
    /\ runs[r].pc = "codeowners"
    /\ \E unavailable \in SUBSET Range(CODEOWNERS_CANDIDATE_PATHS) :
          /\ unavailable # {} => (inputs.use_codeowners /\ MayFail)
          /\ runs' = [runs EXCEPT
                ![r].codeownersRules =
                    IF inputs.use_codeowners
                    THEN parseCodeowners(tryCandidatePaths(CODEOWNERS_CANDIDATE_PATHS, unavailable))
                    ELSE << >>,
                ![r].i = 1,
                ![r].pc = IF Len(runs[r].files) = 0 THEN "latency" ELSE "commits"]
          /\ faults' = faults + (IF unavailable # {} THEN 1 ELSE 0)
    /\ UNCHANGED <<pc, args, scores, reasons, ret, inputs, comments>>

\* the lookup outside any try: its failure ends the run in the outer catch
commitLookup_Throws(run, path, ok) ==
    IF ok
    THEN LET authors == topCommitAuthorsForPath(CommitsOf(path))
         IN  [run EXCEPT !.fileAuthors = IF Len(authors) > 0
                                         THEN Append(@, [path |-> path, authors |-> authors])
                                         ELSE @,
                         !.i = @ + 1,
                         !.pc = IF run.i = Len(run.files) THEN "latency" ELSE "commits"]
    ELSE setFailed(run, "repos.listCommits")

\* one turn of the loop over files: try { ... } catch (e) { core.warning(...) }
commitLookup(run, path, ok) ==
    IF ok
    THEN LET authors == topCommitAuthorsForPath(CommitsOf(path))
         IN  [run EXCEPT !.fileAuthors = IF Len(authors) > 0
                                         THEN Append(@, [path |-> path, authors |-> authors])
                                         ELSE @,
                         !.i = @ + 1,
                         !.pc = IF run.i = Len(run.files) THEN "latency" ELSE "commits"]
    ELSE [run EXCEPT !.warnings = Append(@, path),
                     !.i = @ + 1,
                     !.pc = IF run.i = Len(run.files) THEN "latency" ELSE "commits"]

CommitLookup(r) ==
    /\ runs[r].pc = "commits"
    /\ \E ok \in BOOLEAN :
          /\ ~ok => MayFail
          /\ runs' = [runs EXCEPT ![r] = commitLookup(@, runs[r].files[runs[r].i], ok)]
          /\ faults' = faults + (IF ok THEN 0 ELSE 1)
    /\ UNCHANGED <<pc, args, scores, reasons, ret, inputs, comments>>

\* what run() does between the latency await and upsertComment's first one
rankAndFormat(run, latencyMap, in) ==
    LET ranked == rankCandidates([fileAuthors |-> run.fileAuthors,
                                  prAuthor |-> PullRequest.author,
                                  codeownersRules |-> run.codeownersRules,
                                  changedFiles |-> run.files,
                                  latencyMap |-> latencyMap,
                                  weights |-> weightsOf(in)])
        confidence == computeConfidence([ranked |-> ranked, changedFiles |-> run.files,
                                         codeownersRules |-> run.codeownersRules,
                                         fileAuthors |-> run.fileAuthors])
    IN  [run EXCEPT !.latencyMap = latencyMap,
                    !.ranked = ranked,
                    !.confidence = confidence,
                    !.body = formatComment(Take(ranked, Defaults.max_reviewers),
                                           Defaults.max_files, Len(run.files), confidence),
                    !.pc = "listComments"]

\* pulls.list may throw (caught by run: an empty map), and so may
\* pulls.listReviews for any of the requests (caught inside: request skipped)
FetchLatency(r) ==
    /\ runs[r].pc = "latency"
    /\ \/ /\ runs' = [runs EXCEPT ![r] =
                         rankAndFormat(@,
                             IF inputs.use_latency
                             THEN computeReviewerLatencyHours(
                                      Take(ClosedPulls, clamp(Defaults.latency_prs, 5, 50)),
                                      NowHour - Defaults.lookback_days * 24)
                             ELSE << >>,
                             inputs)]
          /\ UNCHANGED faults
       \/ /\ inputs.use_latency /\ MayFail
          /\ runs' = [runs EXCEPT ![r] = rankAndFormat(@, << >>, inputs)]
          /\ faults' = faults + 1
       \/ /\ inputs.use_latency /\ MayFail
          /\ \E k \in 1..Len(ClosedPulls) :
                runs' = [runs EXCEPT ![r] =
                            rankAndFormat(@,
                                computeReviewerLatencyHours(
                                    [ClosedPulls EXCEPT ![k].reviews = [ok |-> FALSE, data |-> << >>]],
                                    NowHour - Defaults.lookback_days * 24),
                                inputs)]
          /\ faults' = faults + 1
    /\ UNCHANGED <<pc, args, scores, reasons, ret, inputs, comments>>

\* upsertComment, first await: the list arrives
ListComments(r) ==
    /\ runs[r].pc = "listComments"
    /\ \/ /\ runs' = [runs EXCEPT ![r].existing = findMarker(listComments(comments)),
                                  ![r].pc = "write"]
          /\ UNCHANGED faults
       \/ /\ MayFail
          /\ runs' = [runs EXCEPT ![r] = setFailed(@, "issues.listComments")]
          /\ faults' = faults + 1
    /\ UNCHANGED <<pc, args, scores, reasons, ret, inputs, comments>>

\* upsertComment, second await: update the comment found, or create one
WriteComment(r) ==
    /\ runs[r].pc = "write"
    /\ \/ /\ runs[r].existing # Null
          /\ comments' = updateComment(comments, runs[r].existing[1], runs[r].body)
          /\ runs' = [runs EXCEPT ![r] = returned(@)]
          /\ UNCHANGED faults
       \/ /\ runs[r].existing = Null
          /\ comments' = createComment(comments, runs[r].body)
          /\ runs' = [runs EXCEPT ![r] = returned(@)]
          /\ UNCHANGED faults
       \/ /\ MayFail
          /\ runs' = [runs EXCEPT ![r] =
                         setFailed(@, IF runs[r].existing # Null
                                      THEN "issues.updateComment" ELSE "issues.createComment")]
          /\ faults' = faults + 1
          /\ UNCHANGED comments
    /\ UNCHANGED <<pc, args, scores, reasons, ret, inputs>>

NextRun ==
    \E r \in Runs :
        \/ Start(r)
        \/ ListFiles(r)
        \/ FetchCodeowners(r)
        \/ CommitLookup(r)
        \/ FetchLatency(r)
        \/ ListComments(r)
        \/ WriteComment(r)

SpecRun == InitRun /\ [][NextRun]_vars

\* one run on its own: every other run was triggered by an event that is not
\* a pull request and has returned at once (a state SpecRun reaches), and the
\* pull request may carry the comment an earlier run left after the others
InitOneRun ==
    /\ pc = "run"
    /\ args = << >>
    /\ scores = << >>
    /\ reasons = << >>
    /\ ret = << >>
    /\ inputs \in [use_codeowners : BOOLEAN, use_latency : BOOLEAN]
    /\ runs = [r \in Runs |-> IF r = 1 THEN NewRun ELSE returned(NewRun)]
    /\ \E older \in {0, PER_PAGE}, earlier \in BOOLEAN :
          comments = IF earlier
                     THEN createComment([k \in 1..older |-> [id |-> k, body |-> HumanBody]],
                                        formatComment(<< >>, Defaults.max_files, 0, "Low"))
                     ELSE [k \in 1..older |-> [id |-> k, body |-> HumanBody]]
    /\ faults = 0

SpecOneRun == InitOneRun /\ [][NextRun]_vars

\* ==================== Properties ====================

IndexOf(sq, x) == CHOOSE i \in 1..Len(sq) : sq[i] = x /\ \A j \in 1..(i - 1) : sq[j] # x

\* ---- C1

\* C1: no entry of the list rankCandidates returns has the PR author's login
\* or a bot-like login, whatever the three signals award to it.
C1_NoAuthorNoBot ==
    pc = "rank:return" =>
        \A i \in 1..Len(ret) :
            /\ ret[i].login # args.prAuthor
            /\ ~isBotLogin(ret[i].login)

\* the PR author and a bot are both named by the signals, and others are ranked
C1_Witness ==
    /\ pc = "rank:return"
    /\ Len(ret) >= 2
    /\ args.weights.commitHistory > 0 /\ args.weights.codeowners > 0
    /\ \E f \in 1..Len(args.fileAuthors) :
          /\ args.prAuthor \in Range(Take(args.fileAuthors[f].authors, HISTORY_CAP))
          /\ AbBott \in Range(args.fileAuthors[f].authors)
    /\ \E c \in 1..Len(args.changedFiles) :
          dependabot \in Range(ownersForFile(args.codeownersRules, args.changedFiles[c]))

\* ---- C2

MatchingRules(rules, filePath) ==
    {i \in 1..Len(rules) : minimatch(filePath, normalizeCodeownersPattern(rules[i].pattern))}

LastOf(S) == CHOOSE i \in S : \A j \in S : j <= i

\* C2: ownersForFile returns exactly the owners of the last rule, in list
\* order, whose normalized pattern matches the path, and the empty list when
\* none matches; a non-matching rule put in front changes nothing, and a
\* matching rule put at the end makes the result that rule's owners.
C2_LastMatchWins ==
    pc = "ownersForFile:return" =>
        LET rules == args.codeownersRules
            m == MatchingRules(rules, args.filePath)
        IN  /\ ret = IF m = {} THEN << >> ELSE rules[LastOf(m)].owners
            /\ \A r \in Rules :
                  IF minimatch(args.filePath, normalizeCodeownersPattern(r.pattern))
                  THEN ownersForFile(Append(rules, r), args.filePath) = r.owners
                  ELSE ownersForFile(<<r>> \o rules, args.filePath) = ret

\* two rules with different owners match, and a rule after them does not
C2_Witness ==
    /\ pc = "ownersForFile:return"
    /\ LET rules == args.codeownersRules
           m == MatchingRules(rules, args.filePath)
       IN  /\ Cardinality(m) >= 2
           /\ \E i \in m : rules[i].owners # ret
           /\ LastOf(m) < Len(rules)
           /\ ret = rules[LastOf(m)].owners

\* ---- C3

RECURSIVE Flatten(_)
Flatten(sqs) == IF sqs = << >> THEN << >> ELSE Head(sqs) \o Flatten(Tail(sqs))

\* the logins the three passes name, in the order they name them
AwardOrder(a) ==
    Flatten([f \in 1..Len(a.fileAuthors) |-> Take(a.fileAuthors[f].authors, HISTORY_CAP)])
    \o (IF a.weights.codeowners > 0
        THEN Flatten([c \in 1..Len(a.changedFiles) |->
                         ownersForFile(a.codeownersRules, a.changedFiles[c])])
        ELSE << >>)
    \o (IF a.weights.latency > 0
        THEN SelectSeq([i \in 1..Len(a.latencyMap) |-> a.latencyMap[i][1]],
                       LAMBDA l : \E i \in 1..Len(a.latencyMap) :
                                     /\ a.latencyMap[i][1] = l
                                     /\ a.latencyMap[i][2] <= 2 * 48)
        ELSE << >>)

Eligible(a) == {l \in Range(AwardOrder(a)) : ~isBotLogin(l) /\ l # a.prAuthor}

ExampleArgs ==
    [fileAuthors |-> << >>, prAuthor |-> carol, codeownersRules |-> ExampleRules,
     changedFiles |-> <<srcAppJs, readmeMd>>, latencyMap |-> << >>,
     weights |-> [commitHistory |-> 1, codeowners |-> 4, latency |-> 1]]

\* C3: the returned list holds each candidate once with its accumulated
\* score, in descending score order, equal scores in first-seen order
\* (history awards, then ownership awards, then latency awards); the spec's
\* example yields [alice:4, bob:4].
C3_SortedStable ==
    pc = "rank:return" =>
        LET order == AwardOrder(args)
        IN  /\ {ret[i].login : i \in 1..Len(ret)} = Eligible(args)
            /\ Len(ret) = Cardinality(Eligible(args))
            /\ \A i \in 1..Len(ret) : ret[i].score = MapGet(scores, ret[i].login)
            /\ \A i, j \in 1..Len(ret) :
                  i < j =>
                    \/ ret[i].score > ret[j].score
                    \/ /\ ret[i].score = ret[j].score
                       /\ IndexOf(order, ret[i].login) < IndexOf(order, ret[j].login)
            /\ args = ExampleArgs =>
                  [i \in 1..Len(ret) |-> <<ret[i].login, ret[i].score>>]
                      = << <<alice, 4>>, <<bob, 4>> >>

\* a tie that first-seen order and alphabetical order settle differently
C3_Witness ==
    /\ pc = "rank:return"
    /\ \E i \in 1..(Len(ret) - 1) :
          /\ ret[i].score = ret[i + 1].score
          /\ ret[i].login = bob /\ ret[i + 1].login = alice

\* ---- C7

MaxDelta == 2

Signals == {"commitHistory", "codeowners", "latency"}

\* the logins signal sig names, whatever its weight
NamedBy(a, sig) ==
    CASE sig = "commitHistory" ->
            UNION {Range(Take(a.fileAuthors[f].authors, HISTORY_CAP)) : f \in 1..Len(a.fileAuthors)}
      [] sig = "codeowners" ->
            UNION {Range(ownersForFile(a.codeownersRules, a.changedFiles[c])) :
                      c \in 1..Len(a.changedFiles)}
      [] sig = "latency" ->
            {a.latencyMap[i][1] : i \in {j \in 1..Len(a.latencyMap) : a.latencyMap[j][2] <= 2 * 48}}

Raised(a, sig, d) == [a EXCEPT !.weights[sig] = @ + d]

LoginsOf(ranked) == [i \in 1..Len(ranked) |-> ranked[i].login]

\* where each login stands in a ranking
PositionIn(ranked) ==
    [l \in Range(LoginsOf(ranked)) |-> IndexOf(LoginsOf(ranked), l)]

\* ranked against more, the ranking of the same inputs under a raised weight:
\* at is PositionIn(more), and kept the positions in ranked of the candidates
\* that the raised signal does not name
NoneLoweredAt(ranked, more, at, kept) ==
    /\ \A i \in 1..Len(ranked) :
          /\ ranked[i].login \in DOMAIN at
          /\ more[at[ranked[i].login]].score >= ranked[i].score
    /\ \A i \in kept : more[at[ranked[i].login]].score = ranked[i].score
    /\ \A i, j \in kept : i < j => at[ranked[i].login] < at[ranked[j].login]

NoneLowered(ranked, more, named) ==
    NoneLoweredAt(ranked, more, PositionIn(more),
                  {i \in 1..Len(ranked) : ranked[i].login \notin named})

\* C7: raising one weight, the other two fixed, lowers no candidate's score
\* (each stays in the list), and candidates that the raised signal does not
\* name keep their scores and their relative order.
C7_MonotonicInWeights ==
    pc = "rank:return" =>
        \A sig \in Signals, d \in 1..MaxDelta :
            NoneLowered(ret, rankCandidates(Raised(args, sig, d)), NamedBy(args, sig))

\* raising the latency weight lifts a latency-only candidate over two
\* candidates the latency signal does not name
C7_Witness ==
    /\ pc = "rank:return"
    /\ args.weights.latency > 0
    /\ \E i, j, k \in 1..Len(ret) :
          /\ i < j /\ j < k
          /\ {ret[i].login, ret[j].login} \cap NamedBy(args, "latency") = {}
          /\ ret[k].login \in NamedBy(args, "latency")
          /\ LET more == LoginsOf(rankCandidates(Raised(args, "latency", MaxDelta)))
             IN  IndexOf(more, ret[k].login) < IndexOf(more, ret[i].login)

\* ---- C10

HistoryPositions(a) ==
    {<<f, i>> \in (1..Len(a.fileAuthors)) \X (0..(MaxAuthors + 1)) :
        i < Len(a.fileAuthors[f].authors)}

\* what the history pass is to give login: max(1, 3 - i) * weight for each
\* of the first 10 positions i (from 0) of a file's list that hold it
HistoryAward(a, login) ==
    LET at == {p \in HistoryPositions(a) :
                  p[2] < 10 /\ a.fileAuthors[p[1]].authors[p[2] + 1] = login}
        pts == [p \in at |-> (IF 3 - p[2] > 1 THEN 3 - p[2] ELSE 1) * a.weights.commitHistory]
    IN  [n |-> Cardinality(at), sum |-> SumFn(pts, at)]

\* C10: after the contributor-history pass a candidate's score is the sum
\* of max(1, 3 - i) * weights.commitHistory over the files and positions
\* i < 10 where its login stands; positions 10 and later award nothing.
C10_HistoryAwards ==
    pc = "rank:codeowners" =>
        \A login \in UNION {Range(args.fileAuthors[f].authors) : f \in 1..Len(args.fileAuthors)} :
            LET award == HistoryAward(args, login)
            IN  IF isBotLogin(login) \/ login = args.prAuthor \/ award.n = 0
                THEN ~MapHas(scores, login)
                ELSE MapHas(scores, login) /\ MapGet(scores, login) = award.sum

\* a list longer than the cap: alice stands at positions 0, 4, 8 and 10,
\* erin only past the cap
C10_Witness ==
    /\ pc = "rank:codeowners"
    /\ args.weights.commitHistory = 2
    /\ Len(args.fileAuthors) = 1
    /\ Len(args.fileAuthors[1].authors) > HISTORY_CAP
    /\ args.fileAuthors[1].authors[HISTORY_CAP + 1] = alice
    /\ erin \in Range(args.fileAuthors[1].authors)
    /\ MapHas(scores, alice) /\ MapGet(scores, alice) = (3 + 1 + 1) * 2
    /\ ~MapHas(scores, erin)

\* ---- C8

Perms(n) == {p \in [1..n -> 1..n] : \A i, j \in 1..n : p[i] = p[j] => i = j}

Permuted(sq, p) == [i \in 1..Len(sq) |-> sq[p[i]]]

\* the hours of login's earliest dated review on pull request pr
EarliestHours(pr, login) ==
    LET ts == {pr.reviews.data[i].submitted_at[1] :
                  i \in {j \in 1..Len(pr.reviews.data) :
                            /\ pr.reviews.data[j].login = login
                            /\ pr.reviews.data[j].submitted_at # Null}}
    IN  IF ts = {} THEN Null
        ELSE <<(CHOOSE t \in ts : \A u \in ts : t <= u) - pr.created_at>>

\* the sampled requests that give login a valid sample
ValidSamples(pulls, since, login) ==
    {k \in 1..Len(pulls) :
        /\ pulls[k].closed /\ pulls[k].created_at >= since /\ pulls[k].reviews.ok
        /\ EarliestHours(pulls[k], login) # Null
        /\ EarliestHours(pulls[k], login)[1] >= 0}

ReviewLogins(pulls) ==
    UNION {{pulls[k].reviews.data[i].login : i \in 1..Len(pulls[k].reviews.data)} :
              k \in 1..Len(pulls)}

\* C8: reordering the sampled requests, or the review events of one request,
\* leaves the login -> median map as it is; the map has one entry per
\* non-bot reviewer with a valid sample and none for any other.
C8_OrderInvariant ==
    pc = "latency:return" =>
        LET pulls == args.pulls
        IN  /\ \A p \in Perms(Len(pulls)) :
                  Range(computeReviewerLatencyHours(Permuted(pulls, p), args.since)) = Range(ret)
            /\ \A k \in 1..Len(pulls) :
                  \A p \in Perms(Len(pulls[k].reviews.data)) :
                      Range(computeReviewerLatencyHours(
                                [pulls EXCEPT ![k].reviews.data = Permuted(@, p)], args.since))
                          = Range(ret)
            /\ \A i, j \in 1..Len(ret) : ret[i][1] = ret[j][1] => i = j
            /\ \A login \in ReviewLogins(pulls) :
                  MapHas(ret, login) <=>
                      (~isBotLogin(login) /\ ValidSamples(pulls, args.since, login) # {})

\* alice has three samples that arrive out of order, one of them from a
\* request where her earliest review is not her first event
C8_Witness ==
    /\ pc = "latency:return"
    /\ Len(args.pulls) = 3
    /\ ValidSamples(args.pulls, args.since, alice) = {1, 2, 3}
    /\ EarliestHours(args.pulls[1], alice)[1] > EarliestHours(args.pulls[2], alice)[1]
    /\ EarliestHours(args.pulls[3], alice)[1] > EarliestHours(args.pulls[1], alice)[1]
    /\ args.pulls[1].reviews.data[1].login = alice
    /\ args.pulls[1].reviews.data[1].submitted_at[1] - args.pulls[1].created_at
          > EarliestHours(args.pulls[1], alice)[1]
    /\ MapGet(ret, alice) = 2 * EarliestHours(args.pulls[1], alice)[1]

\* ---- C9

\* the label the thresholds give to top, second and coverage = covered / files
LabelFor(top, second, covered, files) ==
    LET high == /\ top >= 12
                /\ files > 0 /\ 2 * covered >= files
                /\ top > 0 /\ 4 * (top - second) >= top
        medium == top >= 6 /\ files > 0 /\ 4 * covered >= files
    IN  IF high THEN "High" ELSE IF medium THEN "Medium" ELSE "Low"

ArgsTop == IF Len(args.ranked) >= 1 THEN args.ranked[1].score ELSE 0
ArgsSecond == IF Len(args.ranked) >= 2 THEN args.ranked[2].score ELSE 0
ArgsCoverage == coverageRatio(args.changedFiles, args.codeownersRules, args.fileAuthors)

\* C9: the label is High exactly when top >= 12, coverage >= 0.5 and
\* separation >= 0.25, otherwise Medium exactly when top >= 6 and
\* coverage >= 0.25, otherwise Low; top is the first score and second the
\* next (0 when absent).  So (14, 9, 0.6) is High, (7, 6, 0.3) is Medium and
\* top = 3 is Low.
C9_ConfidenceThresholds ==
    pc = "confidence:return" =>
        /\ ret = LabelFor(ArgsTop, ArgsSecond, ArgsCoverage.num, ArgsCoverage.den)
        /\ (ArgsTop = 14 /\ ArgsSecond = 9 /\ ArgsCoverage = Ratio(3, 5)) => ret = "High"
        /\ (ArgsTop = 7 /\ ArgsSecond = 6 /\ ArgsCoverage = Ratio(3, 10)) => ret = "Medium"
        /\ ArgsTop = 3 => ret = "Low"

\* the threshold case: top is 12, separation exactly 0.25 and coverage exactly 0.5
C9_Witness ==
    /\ pc = "confidence:return"
    /\ ArgsTop = 12 /\ ArgsSecond = 9
    /\ ArgsCoverage = Ratio(3, 6)
    /\ ret = "High"

\* ---- C4

MarkerComments == {k \in 1..Len(comments) : comments[k].body.marker = MARKER}

\* C4: whatever runs of the action have acted on the pull request, however
\* their list-comments and write steps interleave and however many other
\* comments it carries, at most one of its comments contains the marker.
C4_AtMostOneMarkerComment ==
    pc = "run" => Cardinality(MarkerComments) <= 1

\* ---- C5

\* C5: no run ends by marking the workflow as failed (core.setFailed),
\* whichever external call failed during it.
C5_NeverSetFailed ==
    pc = "run" => \A r \in Runs : runs[r].error = ""

\* ---- C6

\* the contributor entries of the first n files, those left out whose
\* lookup failed (a warning names them) or found no author
ExpectedFileAuthors(files, n, failed) ==
    LET entryOf(path) == [path |-> path, authors |-> topCommitAuthorsForPath(CommitsOf(path))]
        kept == SelectSeq(Take(files, n),
                          LAMBDA path : path \notin failed /\ Len(entryOf(path).authors) > 0)
    IN  [k \in 1..Len(kept) |-> entryOf(kept[k])]

PastCommits(run) == run.pc \in {"latency", "listComments", "write"}

\* C6: a failed commit lookup never ends the run; each failed file only
\* leaves the contributor signal (and is warned about), and the ranking and
\* the confidence of the comment are those of the files whose lookup
\* succeeded, with the ownership and latency signals as fetched.
C6_PartialLookupFailure ==
    pc = "run" =>
        \A r \in Runs :
            LET run == runs[r]
                done == IF run.pc = "commits" THEN run.i - 1
                        ELSE IF PastCommits(run) THEN Len(run.files)
                        ELSE 0
                expected == ExpectedFileAuthors(run.files, done, Range(run.warnings))
            IN  /\ run.error # "repos.listCommits"
                /\ run.pc \in {"commits", "latency", "listComments", "write"} =>
                      run.fileAuthors = expected
                /\ run.pc \in {"listComments", "write"} =>
                      /\ run.ranked =
                            rankCandidates([fileAuthors |-> expected,
                                            prAuthor |-> PullRequest.author,
                                            codeownersRules |-> run.codeownersRules,
                                            changedFiles |-> run.files,
                                            latencyMap |-> run.latencyMap,
                                            weights |-> weightsOf(inputs)])
                      /\ run.confidence =
                            computeConfidence([ranked |-> run.ranked, changedFiles |-> run.files,
                                               codeownersRules |-> run.codeownersRules,
                                               fileAuthors |-> expected])
                      /\ run.body.suggestions = Take(run.ranked, Defaults.max_reviewers)

\* a run whose first lookup failed and second succeeded is about to write
\* a comment that suggests the second file's author
C6_Witness ==
    /\ pc = "run"
    /\ \E r \in Runs :
          /\ runs[r].pc = "write"
          /\ runs[r].warnings = <<srcAppJs>>
          /\ Len(runs[r].fileAuthors) = 1
          /\ runs[r].fileAuthors[1].path = readmeMd
          /\ Len(runs[r].body.suggestions) > 0
          /\ runs[r].body.suggestions[1].login = alice

\* ---- C11

\* the hours at which the tier changes, in half hours
TierEnds == {2 * 4, 2 * 12, 2 * 24, 2 * 48}

\* both medians are numbers, the first the faster
FasterFirst ==
    /\ pc = "latencyBonus:return"
    /\ args[1] # Null /\ args[2] # Null
    /\ args[1][1] < args[2][1]

\* C11 as stated: of any two median latencies a < b, the bonus for a is
\* strictly larger than the bonus for b.
C11_StrictlyLarger ==
    FasterFirst => ret[1] > ret[2]

\* C11 as amended: of two median latencies a < b the bonus for a is never
\* smaller than the bonus for b, and it is strictly larger exactly when one of
\* 4h, 12h, 24h, 48h lies between them (a <= T < b); a median slower than 48h
\* earns zero and no other median does.
C11_StepFunction ==
    FasterFirst =>
        /\ ret[1] >= ret[2]
        /\ ret[1] > ret[2] <=> \E T \in TierEnds : args[1][1] <= T /\ T < args[2][1]
        /\ \A k \in 1..2 : ret[k] = 0 <=> args[k][1] > 2 * 48

\* a median of exactly 4h against one of 4.5h: the tiers 6 and 4
C11_Witness ==
    /\ FasterFirst
    /\ args[1][1] = 2 * 4 /\ args[2][1] = 2 * 4 + 1
    /\ ret = <<6, 4>>

====
